---- MODULE Spec2Model ----
(***************************************************************************)
(* Objectives of the Advantage agents (src/agents/objectives.py):           *)
(* ValueGradientObjective, DecoupledValueGradientObjective and              *)
(* PolicyGradientObjective as one state machine over push / optimize /      *)
(* set_up calls.                                                            *)
(*                                                                          *)
(* An n_step_return is kept symbolically as a polynomial in the discount    *)
(* factor: a function from exponent to coefficient, so that                 *)
(* r + discount^2 * r' and r + discount * r' are different values.          *)
(***************************************************************************)
EXTENDS Integers, Sequences, FiniteSets, TLC

\* ---- bounds of the model ----
MaxSteps   == 3     \* largest horizon `steps` an objective is built with
MaxPeriod  == 2     \* largest `sync_period`
MaxIter    == 2     \* largest `iteration_of_optimization`
MaxReward  == 2     \* rewards are drawn from 1..MaxReward
MaxPush    == 3     \* push calls per run
MaxOpt     == 2     \* optimize calls per run

MaxExp     == MaxSteps + 1
Exps       == 0..MaxExp
Kinds      == {"VG", "DVG", "PG"}
NextStates == {1}   \* the next_state values of the environment

VARIABLES
    kind,                \* which Objective class was constructed
    steps,               \* self._steps
    sync_period,         \* self._sync_period
    iterations,          \* self._iterations_of_optimization
    is_set_up,           \* set_up(session) has run (self._copy is built)
    waiting_buffer,      \* self._waiting_buffer, oldest first
    replay_buffer,       \* self._replay_buffer, in push order
    improvement_steps,   \* self._improvement_steps
    optimization_calls,  \* self._optimization_calls
    func_params,         \* version of the on-policy approximator's parameters
    target_params,       \* version held by the bootstrap approximator
    sync_count,          \* history: sync() invocations so far
    push_calls,          \* history: push calls so far
    opt_calls,           \* history: optimize calls so far
    terminal_pushes,     \* history: push calls whose element had done = true
    bootstrap_calls,     \* history: bootstrap_func invocations so far
    construction,        \* the constructor call: its arguments and how it ended
    plh,                 \* self._action_taken_plh, self._next_state_plh
    last                 \* history: what the latest call did

vars == <<kind, steps, sync_period, iterations, is_set_up, waiting_buffer,
          replay_buffer, improvement_steps, optimization_calls, func_params,
          target_params, sync_count, push_calls, opt_calls, terminal_pushes,
          bootstrap_calls, construction, plh, last>>

config == <<kind, steps, sync_period, iterations>>

\* what push, optimize and set_up never touch
built == <<construction, plh>>

\* ---- n_step_return arithmetic ----
Mono(e, c) == [i \in Exps |-> IF i = e THEN c ELSE 0]

PAdd(p, q) == [i \in Exps |-> p[i] + q[i]]

\* Element.make_element: n_step_return starts as the raw reward
make_element(env, id) ==
    [id |-> id, reward |-> env.reward, done |-> env.done,
     next_state |-> env.next_state, n_step_return |-> Mono(0, env.reward)]

\* the injected bootstrap function: next_state -> scalar estimate
bootstrap_func(next_state) == 10 * next_state

\* np.arange(1, buffer_len)[-1:] : the exponents np.power is applied to
factors(buffer_len) ==
    IF buffer_len >= 2 THEN <<buffer_len - 1>> ELSE <<>>

\* factors * reward
discounted(buffer_len, reward) ==
    [k \in 1..Len(factors(buffer_len)) |-> Mono(factors(buffer_len)[k], reward)]

\* numpy's in-place `a += b` on 1-d arrays: b is broadcast to a's shape, and
\* the statement raises when the broadcast shape is not a's shape.
iadd(a, b) ==
    IF Len(b) = Len(a)
    THEN [ok |-> TRUE, val |-> [k \in 1..Len(a) |-> PAdd(a[k], b[k])]]
    ELSE IF Len(b) = 1
    THEN [ok |-> TRUE, val |-> [k \in 1..Len(a) |-> PAdd(a[k], b[1])]]
    ELSE [ok |-> FALSE, val |-> a]

\* ReplayBuffer.sample(len): the current contents, oldest first
sample(buf) == buf

\* ValueGradientObjective._add_reward: the buffer after the fold, or a raise
add_reward(buf, reward) ==
    LET buffer_len == Len(sample(buf))
        res == iadd([k \in 1..buffer_len |-> sample(buf)[k].n_step_return],
                    discounted(buffer_len, reward))
    IN  [ok  |-> res.ok,
         val |-> [k \in 1..buffer_len |->
                     [buf[k] EXCEPT !.n_step_return = res.val[k]]]]

\* ---- the latest call, for the properties ----
NoCall ==
    [op |-> "none", raised |-> FALSE, flushes |-> 0, boots |-> 0,
     batch |-> <<>>, prior |-> <<>>, elem |-> <<>>, synced |-> FALSE,
     updates |-> 0]

Envs == [reward : 1..MaxReward, done : BOOLEAN, next_state : NextStates]

\* lines 336-337: both input slots start as None
NoSlots ==
    [action_taken |-> <<>>, next_state |-> <<>>,
     created |-> [w \in {"action_taken", "next_state"} |-> 0],
     registered |-> [w \in {"action_taken", "next_state"} |-> 0],
     calls |-> 0, returned |-> <<>>]

\* ---- construction ----
\* Objective.__init__, ValueGradientObjective.__init__,
\* DecoupledValueGradientObjective.__init__, PolicyGradientObjective.__init__
Constructed(kinds, periods) ==
    /\ kind \in kinds
    /\ steps \in (IF kind = "PG" THEN {0} ELSE 1..MaxSteps)
    /\ sync_period \in (IF kind = "DVG" THEN periods ELSE {0})
    /\ iterations \in 1..MaxIter
    /\ is_set_up = FALSE
    /\ waiting_buffer = <<>>
    /\ replay_buffer = <<>>
    /\ improvement_steps = 0
    /\ optimization_calls = 0
    /\ func_params = 0
    /\ target_params = -1
    /\ sync_count = 0
    /\ push_calls = 0
    /\ opt_calls = 0
    /\ terminal_pushes = 0
    /\ bootstrap_calls = 0
    /\ construction = [state |-> "ok", attempts |-> 1,
                       args |-> <<kind, steps, sync_period, iterations>>]
    /\ plh = NoSlots
    /\ last = NoCall

Init == Constructed(Kinds, 1..MaxPeriod)

\* ---- set_up ----
\* builds the graph; the decoupled objective also builds self._copy.
\* Calling it twice is excluded by the caller.
set_up ==
    /\ ~is_set_up
    /\ is_set_up' = TRUE
    /\ last' = [NoCall EXCEPT !.op = "set_up"]
    /\ UNCHANGED <<config, waiting_buffer, replay_buffer, improvement_steps,
                   optimization_calls, func_params, target_params, sync_count,
                   push_calls, opt_calls, terminal_pushes, bootstrap_calls, built>>

\* ---- push ----
\* line 223: the flush condition, tested on the length BEFORE the new element
\* is stored
should_flush(done, buffer_len, n) == done \/ buffer_len = n

\* a flush that bootstraps whatever the element's done flag is
calls_bootstrap_always(done) == TRUE

\* line 224: a flush bootstraps only for a non-terminal element
calls_bootstrap(done) == ~done

\* line 228: what the flush hands to the replay buffer
flush_batch(buf, element) == sample(buf)

\* a push without the flush branch: the element is always appended
value_push_append_only(wb, element, n) ==
    [raised |-> FALSE, wb |-> Append(wb, element), batch |-> <<>>, flushes |-> 0,
     boots |-> 0]

\* ValueGradientObjective.push: the outcome of one call on waiting buffer wb
value_push(wb, element, n) ==
    LET r1 == IF Len(wb) > 0 THEN add_reward(wb, element.reward)
                             ELSE [ok |-> TRUE, val |-> wb]
        buffer_len == Len(r1.val)
        boot == calls_bootstrap(element.done)
        r2 == IF boot THEN add_reward(r1.val, bootstrap_func(element.next_state))
                      ELSE r1
    IN  IF ~r1.ok
        THEN [raised |-> TRUE, wb |-> wb, batch |-> <<>>, flushes |-> 0, boots |-> 0]
        ELSE IF should_flush(element.done, buffer_len, n)
        THEN IF ~r2.ok
             THEN [raised |-> TRUE, wb |-> r1.val, batch |-> <<>>, flushes |-> 0,
                   boots |-> 1]
             ELSE [raised |-> FALSE, wb |-> <<>>,
                   batch |-> flush_batch(r2.val, element), flushes |-> 1,
                   boots |-> IF boot THEN 1 ELSE 0]
        ELSE [raised |-> FALSE, wb |-> Append(r1.val, element), batch |-> <<>>,
              flushes |-> 0, boots |-> 0]

\* a policy push that parks the element in a pending buffer
policy_push_buffered(wb, element) ==
    [raised |-> FALSE, wb |-> Append(wb, element), batch |-> <<>>, flushes |-> 0,
     boots |-> 0]

\* PolicyGradientObjective.push: straight to the replay buffer
policy_push(wb, element) ==
    [raised |-> FALSE, wb |-> wb, batch |-> <<element>>, flushes |-> 1, boots |-> 0]

push(env) ==
    /\ push_calls < MaxPush
    /\ LET element == make_element(env, push_calls + 1)
           out == IF kind = "PG" THEN policy_push(waiting_buffer, element)
                                 ELSE value_push(waiting_buffer, element, steps)
       IN  /\ waiting_buffer' = out.wb
           /\ replay_buffer' = replay_buffer \o out.batch
           /\ last' = [NoCall EXCEPT !.op = "push", !.raised = out.raised,
                          !.flushes = out.flushes, !.boots = out.boots,
                          !.batch = out.batch, !.prior = waiting_buffer,
                          !.elem = <<element>>]
           /\ bootstrap_calls' = bootstrap_calls + out.boots
    /\ push_calls' = push_calls + 1
    /\ terminal_pushes' = terminal_pushes + (IF env.done THEN 1 ELSE 0)
    /\ UNCHANGED <<config, is_set_up, improvement_steps, optimization_calls,
                   func_params, target_params, sync_count, opt_calls, built>>

\* ---- optimize ----
\* the increment placed inside the loop over the batches
improvement_per_batch(imp, nbatches) == imp + nbatches

\* lines 237-244 / 409-417: improvement_steps after the loop over nbatches
\* sampled batches
base_improvement(imp, nbatches) == imp + 1

\* line 308: the sync test of the decoupled objective
sync_due(calls, period) == calls % period = 0

\* the call counter the decoupled optimize leaves behind (lines 302-311 never
\* assign self._optimization_calls)
next_optimization_calls(calls) == calls

\* Approximator.update on an approximator that was not set up fails
update_raises(nbatches) == ~is_set_up /\ nbatches > 0

\* sync() runs self._copy, which is None until set_up
sync_raises == ~is_set_up

\* a bootstrap approximator that shares the on-policy parameters
target_follows_func(target, func, copied) == func

\* lines 296-300, 308-309: the bootstrap approximator's parameters after an
\* optimize call; self._copy() overwrites them with the on-policy ones
target_after_optimize(target, func, copied) == IF copied THEN func ELSE target

\* an optimize that clears the waiting buffer
buffer_cleared_by_optimize(wb) == <<>>

\* lines 234-244, 302-311: optimize never touches self._waiting_buffer
buffer_after_optimize(wb) == wb

optimize_upto(nbatches, bound) ==
    /\ opt_calls < bound
    /\ opt_calls' = opt_calls + 1
    /\ LET updated == IF update_raises(nbatches) THEN func_params
                      ELSE func_params + nbatches
           imp1 == base_improvement(improvement_steps, nbatches)
           calls1 == next_optimization_calls(optimization_calls)
           due == kind = "DVG" /\ sync_due(calls1, sync_period)
       IN  /\ func_params' = updated
           /\ IF update_raises(nbatches)
              THEN /\ last' = [NoCall EXCEPT !.op = "optimize", !.raised = TRUE]
                   /\ UNCHANGED <<improvement_steps, optimization_calls,
                                  target_params, sync_count>>
              ELSE IF kind # "DVG"
              THEN /\ improvement_steps' = imp1
                   /\ last' = [NoCall EXCEPT !.op = "optimize",
                                              !.updates = nbatches]
                   /\ UNCHANGED <<optimization_calls, target_params, sync_count>>
              ELSE /\ optimization_calls' = calls1
                   /\ improvement_steps' = IF due THEN imp1 ELSE imp1 - 1
                   /\ sync_count' = IF due THEN sync_count + 1 ELSE sync_count
                   /\ target_params' = target_after_optimize(target_params, updated,
                                                             due /\ ~sync_raises)
                   /\ last' = [NoCall EXCEPT !.op = "optimize",
                                  !.raised = due /\ sync_raises,
                                  !.synced = due, !.updates = nbatches]
    /\ waiting_buffer' = buffer_after_optimize(waiting_buffer)
    /\ UNCHANGED <<config, is_set_up, replay_buffer, push_calls,
                   terminal_pushes, bootstrap_calls, built>>

optimize(nbatches) == optimize_upto(nbatches, MaxOpt)

Next ==
    \/ set_up
    \/ \E env \in Envs : push(env)
    \/ \E nbatches \in 0..iterations : optimize(nbatches)

Spec == Init /\ [][Next]_vars

\* ---- the sync cadence run: a decoupled objective, optimize calls only ----
CadencePeriods == 1..5

InitCadence == Constructed({"DVG"}, CadencePeriods)

optimize_cadence(nbatches) == optimize_upto(nbatches, 12)

NextCadence ==
    \/ set_up
    \/ \E nbatches \in 0..iterations : optimize_cadence(nbatches)

SpecCadence == InitCadence /\ [][NextCadence]_vars

\* ---- the constructor call itself ----
MaxAttempts == 3    \* constructor calls per run

\* Objective.__init__(self, scope, replay_buffer, func,
\* iteration_of_optimization): the parameters after self
base_init_params == 4

\* lines 156-160 and 339-343: super().__init__(self, scope, replay_buffer,
\* func, iteration_of_optimization), the arguments bound after self
super_init_args(k) == 5

\* Python binds a call only when the positional arguments fit the parameters
binds(nargs, nparams) == nargs = nparams

ConstructorArgs ==
    {a \in Kinds \X (0..MaxSteps) \X ({0} \cup CadencePeriods) \X (1..MaxIter) :
        /\ (a[1] = "PG") = (a[2] = 0)
        /\ (a[1] = "DVG") = (a[3] # 0)}

InitNew ==
    /\ kind = "none"
    /\ steps = 0
    /\ sync_period = 0
    /\ iterations = 0
    /\ is_set_up = FALSE
    /\ waiting_buffer = <<>>
    /\ replay_buffer = <<>>
    /\ improvement_steps = 0
    /\ optimization_calls = 0
    /\ func_params = 0
    /\ target_params = -1
    /\ sync_count = 0
    /\ push_calls = 0
    /\ opt_calls = 0
    /\ terminal_pushes = 0
    /\ bootstrap_calls = 0
    /\ construction = [state |-> "new", attempts |-> 0, args |-> <<>>]
    /\ plh = NoSlots
    /\ last = NoCall

\* one constructor call. The subclass assigns its own fields (lines 149-154,
\* 268-272, 330-337) and then calls Objective.__init__, which assigns
\* iterations and improvement_steps (lines 34-47) if the call binds.
construct(a) ==
    /\ construction.attempts < MaxAttempts
    /\ LET ok == binds(super_init_args(a[1]), base_init_params)
       IN  /\ construction' = [state |-> IF ok THEN "ok" ELSE "raised",
                               attempts |-> construction.attempts + 1,
                               args |-> a]
           /\ iterations' = IF ok THEN a[4] ELSE 0
           /\ last' = [NoCall EXCEPT !.op = "__init__", !.raised = ~ok]
    /\ kind' = a[1]
    /\ steps' = a[2]
    /\ sync_period' = a[3]
    /\ waiting_buffer' = <<>>
    /\ optimization_calls' = 0
    /\ improvement_steps' = 0
    /\ plh' = NoSlots
    /\ UNCHANGED <<is_set_up, replay_buffer, func_params, target_params,
                   sync_count, push_calls, opt_calls, terminal_pushes,
                   bootstrap_calls>>

NextConstruct == \E a \in ConstructorArgs : construct(a)

SpecConstruct == InitNew /\ [][NextConstruct]_vars

\* ---- the lazy input slots of the policy-gradient objective ----
MaxAccess == 3      \* slot accessor calls per run
MaxShape  == 2      \* shape arguments are drawn from 1..MaxShape

\* lines 355 and 373, `if not self._..._plh:`. None is falsy; the truth value
\* of a graph-mode tf.Tensor is not defined and asking for it raises TypeError.
truth(slot) == IF slot = <<>> THEN "false" ELSE "raises"

\* PolicyGradientObjective.action_taken_plh / next_state_plh on slot `which`
slot_access(which, shape) ==
    /\ kind = "PG"
    /\ plh.calls < MaxAccess
    /\ LET t == truth(plh[which])
           slot == <<[name |-> which, shape |-> shape]>>
       IN  IF t = "false"
           THEN /\ plh' = [plh EXCEPT ![which] = slot,
                                      !.created[which] = @ + 1,
                                      !.registered[which] = @ + 1,
                                      !.calls = @ + 1,
                                      !.returned = slot]
                /\ last' = [NoCall EXCEPT !.op = which]
           ELSE /\ plh' = [plh EXCEPT !.calls = @ + 1, !.returned = <<>>]
                /\ last' = [NoCall EXCEPT !.op = which, !.raised = TRUE]
    /\ UNCHANGED <<config, is_set_up, waiting_buffer, replay_buffer,
                   improvement_steps, optimization_calls, func_params,
                   target_params, sync_count, push_calls, opt_calls,
                   terminal_pushes, bootstrap_calls, construction>>

action_taken_plh(action_shape) == slot_access("action_taken", action_shape)

next_state_plh(state_shape) == slot_access("next_state", state_shape)

InitSlots == Constructed({"PG"}, {0})

NextSlots ==
    \/ \E shape \in 1..MaxShape : action_taken_plh(shape)
    \/ \E shape \in 1..MaxShape : next_state_plh(shape)
    \/ \E env \in Envs : push(env)

SpecSlots == InitSlots /\ [][NextSlots]_vars

\* ======================= properties =======================

IsValuePush == kind # "PG" /\ last.op = "push"

IsDecoupledOptimize == kind = "DVG" /\ is_set_up /\ last.op = "optimize" /\ ~last.raised

Ids(seq) == [k \in 1..Len(seq) |-> seq[k].id]

\* C1: for a decoupled objective with sync_period p, the k-th optimize call
\* invokes sync() if and only if p divides k; with p = 5, twelve calls make
\* exactly 2 sync() invocations.
C1_SyncOnlyOnMultiples ==
    /\ IsDecoupledOptimize => (last.synced <=> opt_calls % sync_period = 0)
    /\ (kind = "DVG" /\ sync_period = 5 /\ opt_calls = 12 /\ is_set_up)
           => sync_count = 2

\* C2: a push with done = true flushes exactly once, and the batch handed to
\* the replay buffer is the prior waiting buffer, in order, followed by the
\* terminal transition itself.
C2_TerminalFlushCarriesTerminal ==
    (IsValuePush /\ last.elem[1].done) =>
        /\ last.flushes = 1
        /\ Ids(last.batch) = Ids(Append(last.prior, last.elem[1]))

\* C3: the push of the steps-th consecutive non-terminal transition (the
\* waiting buffer held steps - 1 before it) flushes in that same call, with
\* exactly one bootstrap call.
C3_FullWindowFlushesAtOnce ==
    (IsValuePush /\ ~last.elem[1].done /\ Len(last.prior) = steps - 1) =>
        (last.flushes = 1 /\ last.boots = 1)

\* where a push leaves the transitions that were pending before it
Pending == IF last.flushes > 0 THEN last.batch ELSE waiting_buffer

RawReturns(buf) == \A k \in 1..Len(buf) : buf[k].n_step_return = Mono(0, buf[k].reward)

\* C4: a reward r arriving at L >= 1 pending transitions with raw returns
\* leaves the i-th with r_i + discount^(L+1-i) * r, for every i in 1..L.
C4_FoldExponentPerElement ==
    (IsValuePush /\ Len(last.prior) >= 1 /\ RawReturns(last.prior) /\ last.boots = 0) =>
        /\ Len(Pending) >= Len(last.prior)
        /\ \A i \in 1..Len(last.prior) :
              Pending[i].n_step_return =
                  PAdd(Mono(0, last.prior[i].reward),
                       Mono(Len(last.prior) + 1 - i, last.elem[1].reward))

\* sum over k = j..m of discount^(k-j) * r_k, for the rewards of `seq`
RECURSIVE Return(_, _, _)
Return(seq, j, k) ==
    IF k > Len(seq) THEN Mono(0, 0)
    ELSE PAdd(Mono(k - j, seq[k].reward), Return(seq, j, k + 1))

\* C5: on a terminal flush of a segment of m transitions, the j-th transition
\* handed to the replay buffer carries sum_{k=j..m} discount^(k-j) * r_k.
C5_TerminalFlushReturns ==
    (IsValuePush /\ last.elem[1].done) =>
        LET segment == Append(last.prior, last.elem[1])
        IN  /\ Len(last.batch) = Len(segment)
            /\ \A j \in 1..Len(segment) :
                  last.batch[j].n_step_return = Return(segment, j, j)

\* C6: while fewer than `steps` transitions, all non-terminal, have been
\* pushed into a fresh value-gradient objective, the waiting buffer holds
\* all of them, the replay buffer got nothing and bootstrap_func was not called.
C6_ShortRunOnlyBuffers ==
    (kind # "PG" /\ terminal_pushes = 0 /\ push_calls < steps) =>
        /\ Len(waiting_buffer) = push_calls
        /\ replay_buffer = <<>>
        /\ bootstrap_calls = 0

\* C7: every pushed transition is in the waiting buffer or in the replay
\* buffer, never both, never neither: buffered + transferred = pushed.
C7_NoTransitionLost ==
    kind # "PG" =>
        /\ Len(waiting_buffer) + Len(replay_buffer) = push_calls
        /\ \A id \in 1..push_calls :
              Cardinality({k \in 1..Len(waiting_buffer) : waiting_buffer[k].id = id})
            + Cardinality({k \in 1..Len(replay_buffer) : replay_buffer[k].id = id}) = 1

\* C8: improvement_steps of a decoupled objective equals the number of
\* sync() invocations, so 12 calls with sync_period 5 end with
\* improvement_steps = 2.
C8_ImprovementCountsSyncs ==
    kind = "DVG" =>
        /\ improvement_steps = sync_count
        /\ (sync_period = 5 /\ opt_calls = 12 /\ is_set_up) => improvement_steps = 2

\* C9: a push whose transition has done = true never calls bootstrap_func,
\* whatever the waiting buffer held.
C9_TerminalPushNeverBootstraps ==
    (IsValuePush /\ last.elem[1].done) => last.boots = 0

C9_Witness ==
    IsValuePush /\ last.elem[1].done /\ last.flushes = 1 /\ ~last.raised

\* C10: every optimize call of a value-gradient or policy-gradient objective
\* that returns adds exactly one to improvement_steps, however many batches
\* the replay buffer yielded.
C10_OneImprovementPerCall ==
    [][(opt_calls' = opt_calls + 1 /\ kind \in {"VG", "PG"} /\ ~last'.raised)
          => improvement_steps' = improvement_steps + 1]_vars

C10_Witness ==
    /\ kind \in {"VG", "PG"}
    /\ last.op = "optimize"
    /\ last.updates >= 2
    /\ opt_calls = 2
    /\ improvement_steps = 2

\* C11: the bootstrap approximator's parameters change only in an optimize
\* call whose sync() ran, no push and no set_up changes them, and right
\* after a sync() they equal the on-policy parameters of that instant.
C11_TargetChangesOnlyBySync ==
    [][/\ target_params' # target_params =>
             (last'.op = "optimize" /\ last'.synced /\ ~last'.raised)
       /\ (opt_calls' = opt_calls + 1 /\ last'.synced /\ ~last'.raised) =>
             target_params' = func_params']_vars

C11_Witness ==
    /\ kind = "DVG"
    /\ last.op = "optimize" /\ last.synced /\ ~last.raised
    /\ opt_calls = 2
    /\ func_params >= 2
    /\ target_params = func_params
    /\ push_calls >= 1

\* C12: a policy-gradient objective hands every pushed transition to the
\* replay buffer in that same push, once and as a single element, and keeps
\* nothing pending.
C12_PolicyPushIsImmediate ==
    kind = "PG" =>
        /\ waiting_buffer = <<>>
        /\ Ids(replay_buffer) = [k \in 1..push_calls |-> k]
        /\ last.op = "push" =>
              (last.flushes = 1 /\ last.batch = last.elem /\ ~last.raised)

C12_Witness ==
    kind = "PG" /\ last.op = "push" /\ push_calls = 2 /\ Len(replay_buffer) = 2

\* C13: an optimize call made before set_up ends in an error, performs no
\* approximator update and no sync(), and leaves improvement_steps as it was.
C13_OptimizeBeforeSetUpFails ==
    ~is_set_up =>
        /\ last.op = "optimize" => last.raised
        /\ improvement_steps = 0
        /\ func_params = 0
        /\ sync_count = 0

\* C14: the waiting buffer of a value-gradient objective never holds more
\* than `steps` transitions.
C14_WaitingBufferWithinSteps ==
    kind # "PG" => Len(waiting_buffer) <= steps

C14_Witness ==
    /\ IsValuePush
    /\ Len(last.prior) = steps
    /\ Len(waiting_buffer) = steps

\* C15: right after a push with done = true, and right after any flush, the
\* waiting buffer is empty, and no buffered transition is terminal.
C15_BufferEmptyAtEpisodeEnd ==
    kind # "PG" =>
        /\ (last.op = "push" /\ (last.elem[1].done \/ last.flushes > 0)) =>
              Len(waiting_buffer) = 0
        /\ \A k \in 1..Len(waiting_buffer) : ~waiting_buffer[k].done

\* C16: optimization_calls starts at 0, never decreases, and every optimize
\* call of a decoupled objective adds exactly one to it.
C16_CallCounterCountsCalls ==
    [][/\ opt_calls = 0 => optimization_calls = 0
       /\ optimization_calls' >= optimization_calls
       /\ (opt_calls' = opt_calls + 1 /\ kind = "DVG" /\ is_set_up) =>
             optimization_calls' = optimization_calls + 1]_vars

\* C17: a non-terminal transition with reward r arriving at a full window of
\* L = steps pending transitions flushes it with the bootstrap estimate v
\* folded in: the i-th transferred return has gained discount^(L+1-i) * r and
\* discount^(L+2-i) * v, the estimate one exponent above the reward.
C17_BootstrapFoldedOneStepFurther ==
    (IsValuePush /\ ~last.elem[1].done /\ Len(last.prior) = steps) =>
        LET L == Len(last.prior)
            r == last.elem[1].reward
            v == bootstrap_func(last.elem[1].next_state)
        IN  /\ last.flushes = 1
            /\ last.boots = 1
            /\ Len(last.batch) >= L
            /\ \A i \in 1..L :
                  last.batch[i].n_step_return =
                      PAdd(PAdd(last.prior[i].n_step_return, Mono(L + 1 - i, r)),
                           Mono(L + 2 - i, v))

\* C18: a constructor call with valid arguments succeeds and leaves an
\* objective bound to its arguments with improvement_steps = 0, an empty
\* waiting buffer and optimization_calls = 0.
C18_ConstructionSucceeds ==
    construction.attempts > 0 =>
        /\ construction.state = "ok"
        /\ ~last.raised
        /\ kind = construction.args[1]
        /\ iterations = construction.args[4]
        /\ improvement_steps = 0
        /\ waiting_buffer = <<>>
        /\ optimization_calls = 0

\* C19: each input slot is created and registered at most once, on its first
\* access, and every later access returns that same slot.
C19_SlotsAreCreatedOnce ==
    \A w \in {"action_taken", "next_state"} :
        /\ plh.created[w] <= 1
        /\ plh.registered[w] = plh.created[w]
        /\ last.op = w =>
              (~last.raised /\ plh[w] # <<>> /\ plh.returned = plh[w])

\* C20: an optimize call, sync included, leaves the waiting buffer and its
\* pending returns as they were, and a push leaves improvement_steps,
\* optimization_calls and the number of sync() invocations as they were.
C20_PushAndOptimizeAreDisjoint ==
    [][/\ opt_calls' = opt_calls + 1 => waiting_buffer' = waiting_buffer
       /\ push_calls' = push_calls + 1 =>
             UNCHANGED <<improvement_steps, optimization_calls, sync_count>>]_vars

C20_Witness ==
    /\ kind = "DVG"
    /\ last.op = "optimize" /\ last.synced /\ ~last.raised
    /\ Len(waiting_buffer) = 1
    /\ improvement_steps = 2

====
